---- MODULE Spec2Model ----
(***************************************************************************)
(* Plugin manifest (tool.toml) of src/hardware/manifest.rs.                *)
(*                                                                         *)
(* The manifest text is modelled as the TOML document it denotes: tables   *)
(* of keys, each key absent or bound to a TOML value.  Load is the derived *)
(* serde Deserialize of ToolManifest applied by toml::from_str.  The       *)
(* Schema Projector and the Argument Normalizer are not part of            *)
(* manifest.rs; they are modelled after sections 4.2 and 4.3 of the        *)
(* specification and consume the manifest that Load produces.              *)
(***************************************************************************)
EXTENDS Integers, Sequences, FiniteSets, TLC

VARIABLES text, pc, loaded, schema, args, result

vars == <<text, pc, loaded, schema, args, result>>

(***************************************************************************)
(* Bounds of the model.                                                    *)
(***************************************************************************)
\* Largest number of [[parameters]] blocks in a manifest text.
MaxParams == 2

(***************************************************************************)
(* TOML values (the manifest text) and JSON values (serde_json::Value).    *)
(***************************************************************************)
\* A key that the text does not set.
Absent == [k |-> "absent", s |-> "", i |-> 0, b |-> FALSE]
TStr(x) == [k |-> "str", s |-> x, i |-> 0, b |-> FALSE]
TInt(x) == [k |-> "int", s |-> "", i |-> x, b |-> FALSE]
TBool(x) == [k |-> "bool", s |-> "", i |-> 0, b |-> x]

\* Option::None of an Option<serde_json::Value>.
JNone == [k |-> "none", s |-> "", i |-> 0, b |-> FALSE]
JString(x) == [k |-> "string", s |-> x, i |-> 0, b |-> FALSE]
JNumber(x) == [k |-> "number", s |-> "", i |-> x, b |-> FALSE]
JBool(x) == [k |-> "boolean", s |-> "", i |-> 0, b |-> x]

\* Deserializing a TOML value as serde_json::Value: each TOML scalar becomes
\* the JSON scalar of the corresponding kind.
TomlToJson(tv) ==
    CASE tv.k = "str" -> JString(tv.s)
      [] tv.k = "int" -> JNumber(tv.i)
      [] tv.k = "bool" -> JBool(tv.b)
      [] OTHER -> JNone

(***************************************************************************)
(* Field deserializers.  Each returns [ok, v]; ok = FALSE is the serde     *)
(* error (missing field / invalid type) that makes toml::from_str fail.    *)
(***************************************************************************)
\* DeString with a default: an absent key reads as the empty string.
DeStringDefault(tv) ==
    IF tv.k = "str" THEN [ok |-> TRUE, v |-> tv.s]
    ELSE IF tv.k = "absent" THEN [ok |-> TRUE, v |-> ""]
    ELSE [ok |-> FALSE, v |-> ""]

\* A field of type String: must be present and a TOML string.
DeString(tv) ==
    IF tv.k = "str" THEN [ok |-> TRUE, v |-> tv.s] ELSE [ok |-> FALSE, v |-> ""]

\* A field of type bool: must be present and a TOML boolean.
DeBool(tv) ==
    IF tv.k = "bool" THEN [ok |-> TRUE, v |-> tv.b] ELSE [ok |-> FALSE, v |-> FALSE]

\* DeOptionValue with an absent key read as Some(Value::Null).
DeOptionValueNull(tv) ==
    IF tv.k = "absent" THEN [k |-> "null", s |-> "", i |-> 0, b |-> FALSE]
    ELSE TomlToJson(tv)

\* A field of type Option<serde_json::Value>: None when the key is absent,
\* otherwise Some of the converted value; never an error.
DeOptionValue(tv) ==
    IF tv.k = "absent" THEN JNone ELSE TomlToJson(tv)

(***************************************************************************)
(* Struct deserializers.                                                   *)
(***************************************************************************)
NoToolMeta == [name |-> "", version |-> "", description |-> ""]

\* struct ToolMeta { name: String, version: String, description: String }
ToolMeta(t) ==
    LET n == DeString(t.name)
        v == DeString(t.version)
        d == DeString(t.description)
    IN  IF t.present /\ n.ok /\ v.ok /\ d.ok
        THEN [ok |-> TRUE,
              v |-> [name |-> n.v, version |-> v.v, description |-> d.v]]
        ELSE [ok |-> FALSE, v |-> NoToolMeta]

NoExecConfig == [binary |-> ""]

\* struct ExecConfig { binary: String }
ExecConfig(t) ==
    LET b == DeString(t.binary)
    IN  IF t.present /\ b.ok
        THEN [ok |-> TRUE, v |-> [binary |-> b.v]]
        ELSE [ok |-> FALSE, v |-> NoExecConfig]

\* Option::None of an Option<TransportConfig>.
NoTransport == [some |-> FALSE, preferred |-> "", device_required |-> FALSE]

\* transport: Option<TransportConfig>, with
\* struct TransportConfig { preferred: String, device_required: bool }.
\* An absent [transport] table is None; a present one must be complete.
TransportConfig(t) ==
    LET p == DeString(t.preferred)
        d == DeBool(t.device_required)
    IN  IF ~t.present THEN [ok |-> TRUE, v |-> NoTransport]
        ELSE IF p.ok /\ d.ok
        THEN [ok |-> TRUE,
              v |-> [some |-> TRUE, preferred |-> p.v, device_required |-> d.v]]
        ELSE [ok |-> FALSE, v |-> NoTransport]

NoParameterDef ==
    [name |-> "", type |-> "", description |-> "", required |-> FALSE,
     default |-> JNone]

\* ParameterDef with a declared default silently overriding required.
ParameterDefDefaultWins(t) ==
    LET n == DeString(t.name)
        y == DeString(t.type)
        d == DeString(t.description)
        r == DeBool(t.required)
    IN  IF n.ok /\ y.ok /\ d.ok /\ r.ok
        THEN [ok |-> TRUE,
              v |-> [name |-> n.v, type |-> y.v, description |-> d.v,
                     required |-> r.v /\ t.default.k = "absent",
                     default |-> DeOptionValue(t.default)]]
        ELSE [ok |-> FALSE, v |-> NoParameterDef]

\* ParameterDef with the type and description keys read into each other's field.
ParameterDefSwapTypeDescription(t) ==
    LET n == DeString(t.name)
        y == DeString(t.type)
        d == DeString(t.description)
        r == DeBool(t.required)
    IN  IF n.ok /\ y.ok /\ d.ok /\ r.ok
        THEN [ok |-> TRUE,
              v |-> [name |-> n.v, type |-> d.v, description |-> y.v,
                     required |-> r.v, default |-> DeOptionValue(t.default)]]
        ELSE [ok |-> FALSE, v |-> NoParameterDef]

\* ParameterDef with the name and description keys read into each other's field.
ParameterDefSwapNameDescription(t) ==
    LET n == DeString(t.name)
        y == DeString(t.type)
        d == DeString(t.description)
        r == DeBool(t.required)
    IN  IF n.ok /\ y.ok /\ d.ok /\ r.ok
        THEN [ok |-> TRUE,
              v |-> [name |-> d.v, type |-> y.v, description |-> n.v,
                     required |-> r.v, default |-> DeOptionValue(t.default)]]
        ELSE [ok |-> FALSE, v |-> NoParameterDef]

\* struct ParameterDef { name: String, type: String, description: String,
\*                       required: bool, default: Option<Value> }
\* The type tag is a free-form String: any string is accepted.
ParameterDef(t) ==
    LET n == DeString(t.name)
        y == DeString(t.type)
        d == DeString(t.description)
        r == DeBool(t.required)
    IN  IF n.ok /\ y.ok /\ d.ok /\ r.ok
        THEN [ok |-> TRUE,
              v |-> [name |-> n.v, type |-> y.v, description |-> d.v,
                     required |-> r.v, default |-> DeOptionValue(t.default)]]
        ELSE [ok |-> FALSE, v |-> NoParameterDef]

\* Parameters without #[serde(default)]: an absent key is a missing field.
ParametersNoDefault(doc) ==
    IF ~doc.has_parameters THEN [ok |-> FALSE, v |-> <<>>]
    ELSE IF \A i \in 1..Len(doc.parameters) : ParameterDef(doc.parameters[i]).ok
    THEN [ok |-> TRUE,
          v |-> [i \in 1..Len(doc.parameters) |-> ParameterDef(doc.parameters[i]).v]]
    ELSE [ok |-> FALSE, v |-> <<>>]

\* parameters: Vec<ParameterDef> with #[serde(default)]: an absent key is the
\* empty Vec; otherwise the blocks are deserialized in declaration order and
\* any failing block fails the whole Vec.
Parameters(doc) ==
    IF ~doc.has_parameters THEN [ok |-> TRUE, v |-> <<>>]
    ELSE IF \A i \in 1..Len(doc.parameters) : ParameterDef(doc.parameters[i]).ok
    THEN [ok |-> TRUE,
          v |-> [i \in 1..Len(doc.parameters) |-> ParameterDef(doc.parameters[i]).v]]
    ELSE [ok |-> FALSE, v |-> <<>>]

NoManifest ==
    [tool |-> NoToolMeta, exec |-> NoExecConfig, transport |-> NoTransport,
     parameters |-> <<>>]

\* toml::from_str::<ToolManifest>(text): all four fields must deserialize.
ToolManifest(doc) ==
    LET t == ToolMeta(doc.tool)
        e == ExecConfig(doc.exec)
        x == TransportConfig(doc.transport)
        p == Parameters(doc)
    IN  IF t.ok /\ e.ok /\ x.ok /\ p.ok
        THEN [ok |-> TRUE,
              v |-> [tool |-> t.v, exec |-> e.v, transport |-> x.v,
                     parameters |-> p.v]]
        ELSE [ok |-> FALSE, v |-> NoManifest]

(***************************************************************************)
(* Schema Projector (specification section 4.2).                           *)
(***************************************************************************)
\* Type mapping of the projector: string, integer and boolean map to the
\* JSON Schema primitive of the same name.
SchemaType(t) ==
    CASE t = "string" -> "string"
      [] t = "integer" -> "integer"
      [] t = "boolean" -> "boolean"
      [] OTHER -> t

\* The names of the parameters marked required, in declared order.
RECURSIVE RequiredNames(_)
RequiredNames(ps) ==
    IF ps = <<>> THEN <<>>
    ELSE (IF Head(ps).required THEN <<Head(ps).name>> ELSE <<>>)
         \o RequiredNames(Tail(ps))

\* The named-property map: property name -> {type, description}, built by
\* inserting one entry per parameter in declared order into a map.
RECURSIVE Properties(_)
Properties(ps) ==
    IF ps = <<>> THEN [n \in {} |-> [type |-> "", description |-> ""]]
    ELSE LET p == ps[Len(ps)]
         IN  (p.name :> [type |-> SchemaType(p.type), description |-> p.description])
             @@ Properties(SubSeq(ps, 1, Len(ps) - 1))

NoSchema ==
    [set |-> FALSE, properties |-> Properties(<<>>), required |-> <<>>]

\* The object schema derived from a manifest's parameter list.
ParametersSchema(m) ==
    [set |-> TRUE,
     properties |-> Properties(m.parameters),
     required |-> RequiredNames(m.parameters)]

(***************************************************************************)
(* Argument Normalizer (specification section 4.3).                        *)
(***************************************************************************)
\* The runtime type of a caller-supplied JSON value, as a type tag.
TypeOf(jv) ==
    CASE jv.k = "string" -> "string"
      [] jv.k = "number" -> "integer"
      [] jv.k = "boolean" -> "boolean"
      [] OTHER -> "null"

EmptyArgs == [n \in {} |-> JNone]

ArgError(kind, name) == [kind |-> kind, name |-> name]

\* Steps 1 to 3, applied to every declared parameter in declared order.
\* acc carries the mapping built so far and the violations found.
RECURSIVE NormalizeParams(_, _, _)
NormalizeParams(ps, a, acc) ==
    IF ps = <<>> THEN acc
    ELSE LET p == Head(ps)
             next ==
               IF p.name \notin DOMAIN a
               THEN IF p.required
                    THEN [acc EXCEPT !.errors =
                            @ \cup {ArgError("missing required parameter", p.name)}]
                    ELSE IF p.default.k # "none"
                    THEN [acc EXCEPT !.value = (p.name :> p.default) @@ @]
                    ELSE acc
               ELSE IF TypeOf(a[p.name]) # p.type
                    THEN [acc EXCEPT !.errors =
                            @ \cup {ArgError("type mismatch", p.name)}]
                    ELSE [acc EXCEPT !.value = (p.name :> a[p.name]) @@ @]
         IN  NormalizeParams(Tail(ps), a, next)

\* Step 4: caller-supplied keys that no declared parameter names.
UnknownKeys(m, a) ==
    {ArgError("unknown parameter", k) :
        k \in DOMAIN a \ {m.parameters[i].name : i \in 1..Len(m.parameters)}}

NoResult == [done |-> FALSE, ok |-> FALSE, value |-> EmptyArgs, errors |-> {}]

\* The normalized mapping, or the failure with the violations found.
Normalize(m, a) ==
    LET r == NormalizeParams(m.parameters, a, [value |-> EmptyArgs, errors |-> {}])
        errs == r.errors \cup UnknownKeys(m, a)
    IN  [done |-> TRUE,
         ok |-> errs = {},
         value |-> IF errs = {} THEN r.value ELSE EmptyArgs,
         errors |-> errs]

(***************************************************************************)
(* Manifest texts the model draws from.                                    *)
(***************************************************************************)
\* A [tool] table: absent, or present with each key absent, a string, or
\* (for name) a value of the wrong TOML type.
ToolTables ==
    [present : {TRUE},
     name : {Absent, TStr("pwm_set"), TInt(1)},
     version : {Absent, TStr("1.0.0")},
     description : {Absent, TStr("Set PWM duty cycle")}]
    \cup {[present |-> FALSE, name |-> Absent, version |-> Absent,
           description |-> Absent]}

FullTool ==
    [present |-> TRUE, name |-> TStr("pwm_set"), version |-> TStr("1.0.0"),
     description |-> TStr("Set PWM duty cycle")]

ExecTables ==
    [present : {TRUE}, binary : {Absent, TStr("pwm_set"), TBool(TRUE)}]
    \cup {[present |-> FALSE, binary |-> Absent]}

FullExec == [present |-> TRUE, binary |-> TStr("pwm_set")]

AbsentTransport ==
    [present |-> FALSE, preferred |-> Absent, device_required |-> Absent]

TransportTables ==
    [present : {TRUE},
     preferred : {Absent, TStr("serial"), TStr("swd")},
     device_required : {Absent, TBool(TRUE), TBool(FALSE)}]
    \cup {AbsentTransport}

ParamNames == {"device", "pin"}

\* Type tags a text may carry: the three documented ones and one other.
TypeTags == {"string", "integer", "boolean", "float"}

\* Complete [[parameters]] blocks, all combinations of a single block.
SingleParamTables ==
    [name : {TStr(n) : n \in ParamNames},
     type : {TStr(t) : t \in TypeTags},
     description : {TStr("bus"), TStr("Device alias")},
     required : {TBool(TRUE), TBool(FALSE)},
     default : {Absent, TInt(50), TStr("pico0"), TBool(TRUE)}]

\* Complete [[parameters]] blocks used in texts of several blocks.
ParamTables ==
    [name : {TStr(n) : n \in ParamNames},
     type : {TStr("string"), TStr("integer"), TStr("float")},
     description : {TStr("bus")},
     required : {TBool(TRUE), TBool(FALSE)},
     default : {Absent, TInt(50)}]

\* [[parameters]] blocks with a key missing or of the wrong TOML type.
BrokenParamTables ==
    LET full == [name |-> TStr("device"), type |-> TStr("string"),
                 description |-> TStr("Device alias"), required |-> TBool(TRUE),
                 default |-> Absent]
    IN  {[full EXCEPT !.name = Absent], [full EXCEPT !.type = Absent],
         [full EXCEPT !.description = Absent], [full EXCEPT !.required = Absent],
         [full EXCEPT !.required = TStr("yes")], [full EXCEPT !.type = TInt(1)]}

\* The three [[parameters]] blocks of the full example manifest.
ExampleParams ==
    <<[name |-> TStr("device"), type |-> TStr("string"),
       description |-> TStr("Device alias"), required |-> TBool(TRUE),
       default |-> Absent],
      [name |-> TStr("pin"), type |-> TStr("integer"),
       description |-> TStr("PWM pin number"), required |-> TBool(TRUE),
       default |-> Absent],
      [name |-> TStr("duty"), type |-> TStr("integer"),
       description |-> TStr("Duty cycle"), required |-> TBool(FALSE),
       default |-> TInt(50)]>>

SeqsUpTo(S, n) == UNION {[1..k -> S] : k \in 0..n}

Doc(t, e, x, hp, ps) ==
    [tool |-> t, exec |-> e, transport |-> x, has_parameters |-> hp,
     parameters |-> ps]

\* Texts that vary the identity, exec and transport blocks.
BlockTexts ==
    {Doc(t, e, x, hp, ps) :
        t \in ToolTables, e \in ExecTables, x \in TransportTables,
        hp \in {FALSE}, ps \in {<<>>}}
    \cup
    {Doc(t, e, x, TRUE, <<p>>) :
        t \in ToolTables, e \in ExecTables, x \in {AbsentTransport},
        p \in BrokenParamTables \cup
              {ExampleParams[1]}}

\* Texts with complete identity and exec blocks that vary the parameters.
ParamTexts ==
    {Doc(FullTool, FullExec, AbsentTransport, Len(ps) > 0, ps) :
        ps \in SeqsUpTo(ParamTables, MaxParams)}
    \cup
    {Doc(FullTool, FullExec, x, TRUE, <<p>>) :
        x \in TransportTables, p \in SingleParamTables \cup BrokenParamTables}
    \cup
    {Doc(FullTool, FullExec, AbsentTransport, TRUE, <<>>)}

\* Texts with a complete transport block and two or three example parameters.
FullTexts ==
    {Doc(FullTool, FullExec, x, TRUE, [i \in 1..Len(ix) |-> ExampleParams[ix[i]]]) :
        x \in {t \in TransportTables :
                 t.preferred # Absent /\ t.device_required # Absent},
        ix \in [1..2 -> 1..3] \cup [1..3 -> 1..3]}

Texts == BlockTexts \cup ParamTexts \cup FullTexts

\* Argument mappings a caller may supply.
\* Keys a caller may supply; "bus" is never a declared parameter name.
ArgKeys == ParamNames \cup {"bus"}

ArgValues == {JString("pico0"), JNumber(7), JBool(FALSE)}

ArgMaps == UNION {[ks -> ArgValues] : ks \in SUBSET ArgKeys}

(***************************************************************************)
(* The state machine: one text is loaded, its schema projected, and        *)
(* argument mappings are normalized against the loaded manifest.           *)
(***************************************************************************)
NoLoad == [ok |-> FALSE, v |-> NoManifest]

Init ==
    /\ text \in Texts
    /\ pc = "text"
    /\ loaded = NoLoad
    /\ schema = NoSchema
    /\ args = EmptyArgs
    /\ result = NoResult

\* toml::from_str on the text: a manifest or a failure.
Load ==
    /\ pc = "text"
    /\ loaded' = ToolManifest(text)
    /\ pc' = IF ToolManifest(text).ok THEN "loaded" ELSE "failed"
    /\ UNCHANGED <<text, schema, args, result>>

\* The schema of the loaded manifest is derived.
Project ==
    /\ pc = "loaded"
    /\ schema' = ParametersSchema(loaded.v)
    /\ pc' = "projected"
    /\ UNCHANGED <<text, loaded, args, result>>

\* One call: a caller-supplied mapping is normalized against the manifest.
NormalizeCall ==
    /\ pc = "projected"
    /\ \E a \in ArgMaps :
         /\ args' = a
         /\ result' = Normalize(loaded.v, a)
    /\ pc' = "normalized"
    /\ UNCHANGED <<text, loaded, schema>>

Next == Load \/ Project \/ NormalizeCall

Spec == Init /\ [][Next]_vars

(***************************************************************************)
(* What a manifest text declares, read off the text itself.                *)
(***************************************************************************)
Declared(tv) == tv.k # "absent"

\* The text's parameter blocks (none when the key is absent).
DeclParams == IF text.has_parameters THEN text.parameters ELSE <<>>

DeclIndex == 1..Len(DeclParams)

DeclNames == {DeclParams[i].name.s : i \in DeclIndex}

\* The names of the blocks declared required = true, in declaration order.
DeclRequiredNames ==
    LET IsRequired(t) == t.required = TBool(TRUE)
        sel == SelectSeq(DeclParams, IsRequired)
    IN  [i \in 1..Len(sel) |-> sel[i].name.s]

\* The JSON value jv is the declared TOML value tv.
Denotes(jv, tv) ==
    \/ tv.k = "str" /\ jv.k = "string" /\ jv.s = tv.s
    \/ tv.k = "int" /\ jv.k = "number" /\ jv.i = tv.i
    \/ tv.k = "bool" /\ jv.k = "boolean" /\ jv.b = tv.b

\* The JSON value jv is a value of the declared type tag.
HasDeclaredType(jv, tag) ==
    \/ tag = TStr("string") /\ jv.k = "string"
    \/ tag = TStr("integer") /\ jv.k = "number"
    \/ tag = TStr("boolean") /\ jv.k = "boolean"

\* Only the identity block and the exec block, both complete.
IdentityAndExecOnly ==
    /\ text.tool.present /\ text.exec.present
    /\ text.tool.name.k = "str" /\ text.tool.version.k = "str"
    /\ text.tool.description.k = "str" /\ text.exec.binary.k = "str"
    /\ ~text.transport.present
    /\ ~text.has_parameters

\* One of identity.name, identity.version, identity.description, exec.binary
\* is missing from the text.
IdentityOrExecFieldMissing ==
    \/ ~text.tool.present \/ ~text.exec.present
    \/ ~Declared(text.tool.name) \/ ~Declared(text.tool.version)
    \/ ~Declared(text.tool.description) \/ ~Declared(text.exec.binary)

LoadAttempted == pc # "text"

(***************************************************************************)
(* Claims.                                                                 *)
(***************************************************************************)
\* C1: a text declaring only the identity and exec blocks loads, with an
\* empty parameter sequence and no transport hint.
C1_IdentityExecOnlyLoads ==
    (LoadAttempted /\ IdentityAndExecOnly) =>
        /\ loaded.ok
        /\ loaded.v.parameters = <<>>
        /\ ~loaded.v.transport.some

C1_Witness ==
    pc = "loaded" /\ IdentityAndExecOnly /\ Len(loaded.v.parameters) = 0

\* C2: the loaded manifest carries what the text declares: a transport hint
\* exactly when a transport block is declared, with its preferred kind and
\* device_required flag; one parameter per declared block, in declaration
\* order, with the declared name, type, required flag and default, the
\* default absent exactly when none is declared.
C2_LoadPreservesDeclarations ==
    loaded.ok =>
        /\ loaded.v.transport.some <=> text.transport.present
        /\ loaded.v.transport.some =>
              /\ loaded.v.transport.preferred = text.transport.preferred.s
              /\ loaded.v.transport.device_required = text.transport.device_required.b
        /\ Len(loaded.v.parameters) = Len(DeclParams)
        /\ \A i \in DeclIndex :
              LET p == loaded.v.parameters[i]
                  t == DeclParams[i]
              IN  /\ p.name = t.name.s
                  /\ p.type = t.type.s
                  /\ p.required = t.required.b
                  /\ (p.default.k = "none") <=> ~Declared(t.default)
                  /\ Declared(t.default) => Denotes(p.default, t.default)

C2_Witness ==
    /\ pc = "loaded"
    /\ text.transport.present
    /\ Len(loaded.v.parameters) = 3
    /\ loaded.v.parameters[1].name = "pin"
    /\ loaded.v.parameters[2].name = "duty"
    /\ loaded.v.parameters[2].default = JNumber(50)
    /\ loaded.v.parameters[3].name = "device"
    /\ loaded.v.parameters[3].default = JNone

\* C3: a text missing identity.name, identity.version, identity.description
\* or exec.binary fails to load, whatever its transport and parameters
\* blocks hold; no manifest is produced and no value stands in for the
\* missing field.
C3_MissingIdentityOrExecFails ==
    (LoadAttempted /\ IdentityOrExecFieldMissing) =>
        /\ ~loaded.ok
        /\ pc = "failed"
        /\ loaded.v = NoManifest
        /\ ~schema.set /\ ~result.done

C3_Witness ==
    /\ pc = "failed"
    /\ ~Declared(text.tool.version)
    /\ text.tool.name.k = "str" /\ text.exec.binary.k = "str"
    /\ text.has_parameters /\ Len(text.parameters) = 1
    /\ text.parameters[1] = ExampleParams[1]

\* C4: the projected required-name list is exactly the names of the
\* parameters declared required = true, in declaration order, and the
\* property map has one entry per declared parameter.
C4_SchemaMatchesDeclarations ==
    schema.set =>
        /\ schema.required = DeclRequiredNames
        /\ DOMAIN schema.properties = DeclNames
        /\ Cardinality(DOMAIN schema.properties) = Len(DeclParams)

\* C5: a declared parameter with required = false that the arguments omit
\* is mapped to its declared default in a successful result, and is no key
\* of the result when it declares no default.
C5_OmittedOptionalGetsDefaultOrNothing ==
    (result.done /\ result.ok) =>
        \A i \in DeclIndex :
            LET t == DeclParams[i]
            IN  (t.required = TBool(FALSE) /\ t.name.s \notin DOMAIN args) =>
                    IF Declared(t.default)
                    THEN /\ t.name.s \in DOMAIN result.value
                         /\ Denotes(result.value[t.name.s], t.default)
                    ELSE t.name.s \notin DOMAIN result.value

WellTypedArgs ==
    /\ DOMAIN args \subseteq DeclNames
    /\ \A i \in DeclIndex :
          LET t == DeclParams[i]
          IN  /\ t.required = TBool(TRUE) => t.name.s \in DOMAIN args
              /\ t.name.s \in DOMAIN args =>
                    HasDeclaredType(args[t.name.s], t.type)

\* C7: round trip: for a loaded manifest, normalizing well-typed arguments
\* for its declared parameters succeeds.
C7_WellTypedArgsNormalize ==
    (result.done /\ WellTypedArgs) => result.ok

C7_Witness ==
    /\ result.done /\ WellTypedArgs /\ result.ok
    /\ Len(DeclParams) = 2
    /\ DeclParams[1].name # DeclParams[2].name
    /\ DeclParams[1].required = TBool(TRUE)
    /\ DeclParams[2].required = TBool(FALSE)
    /\ DeclParams[1].type # DeclParams[2].type
    /\ DOMAIN args = DeclNames

C9_DuplicateNamesRejected ==
    /\ (LoadAttempted /\ \E i, j \in DeclIndex :
            i # j /\ Declared(DeclParams[i].name)
                  /\ DeclParams[i].name = DeclParams[j].name) => ~loaded.ok
    /\ loaded.ok =>
          \A i, j \in 1..Len(loaded.v.parameters) :
              i # j => loaded.v.parameters[i].name # loaded.v.parameters[j].name

\* C10: a text with a parameter type other than "string", "integer" or
\* "boolean" fails to load; in every loaded manifest every parameter's type
\* is one of the three.
C10_UnknownTypeRejected ==
    /\ (LoadAttempted /\ \E i \in DeclIndex :
            /\ DeclParams[i].type.k = "str"
            /\ DeclParams[i].type.s \notin {"string", "integer", "boolean"})
          => ~loaded.ok
    /\ loaded.ok =>
          \A i \in 1..Len(loaded.v.parameters) :
              loaded.v.parameters[i].type \in {"string", "integer", "boolean"}

====
